---------------------------- MODULE Spec2Model ----------------------------
(***************************************************************************)
(* A model of execute_llama2.py: the JSON extraction and repair heuristic, *)
(* the confirmation gate and the materialization of the file scaffolding.  *)
(*                                                                         *)
(* Text is a sequence of one-character strings.  A Python value is a       *)
(* tagged record: None, a str, an int, a bool, a list or a dict; a dict    *)
(* keeps its items in insertion order, as Python's dict does.              *)
(***************************************************************************)
EXTENDS Integers, Sequences, FiniteSets, TLC

VARIABLES
    phase,              \* position of main() (or of the repair driver)
    software_description,
    architecture_data,  \* the module-level global of line 7
    answer,             \* what the user typed at the confirmation prompt
    user_input,         \* answer.strip().lower() (line 117)
    file_scaffolding,   \* the local of generate_software_files
    idx,                \* index of the next entry of the for loop (line 141)
    fs,                 \* the filesystem: directories and files
    made,               \* directories created by this run
    written,            \* files opened for writing by this run
    console,            \* kinds of the lines printed so far
    error,              \* the uncaught exception that ended the run, if any
    text,               \* input of the JSON routines
    doc,                \* the document the input text was built from
    json_text,          \* the text the repair routine hands to json.loads
    result              \* what the JSON routine returned

vars == <<phase, software_description, architecture_data, answer, user_input,
          file_scaffolding, idx, fs, made, written, console, error,
          text, doc, json_text, result>>

mainVars == <<software_description, architecture_data, answer, user_input,
              file_scaffolding, idx, fs, made, written, console, error>>

jsonVars == <<text, doc, json_text, result>>

-----------------------------------------------------------------------------
(* Python values *)

None == [t |-> "none"]
PyStr(s) == [t |-> "str", s |-> s]
PyInt(n) == [t |-> "int", n |-> n]
PyBool(b) == [t |-> "bool", b |-> b]
PyList(a) == [t |-> "list", a |-> a]
PyDict(ms) == [t |-> "dict", ms |-> ms]

IsDict(v) == v.t = "dict"
IsList(v) == v.t = "list"
IsStr(v) == v.t = "str"

\* bool(v) for the values that occur: None and empty containers are falsy
Truthy(v) ==
    CASE v.t = "none" -> FALSE
      [] v.t = "dict" -> v.ms # <<>>
      [] v.t = "list" -> v.a # <<>>
      [] v.t = "str" -> v.s # <<>>
      [] v.t = "bool" -> v.b
      [] v.t = "int" -> v.n # <<"0">>
      [] OTHER -> TRUE

\* d[key] = val on a dict's ordered items
DictSet(ms, key, val) ==
    IF \E i \in 1..Len(ms) : ms[i][1] = key
    THEN [i \in 1..Len(ms) |-> IF ms[i][1] = key THEN <<key, val>> ELSE ms[i]]
    ELSE Append(ms, <<key, val>>)

\* d.get(key, default)
DictGet(d, key, default) ==
    IF \E i \in 1..Len(d.ms) : d.ms[i][1] = key
    THEN d.ms[CHOOSE i \in 1..Len(d.ms) : d.ms[i][1] = key][2]
    ELSE default

-----------------------------------------------------------------------------
(* Text helpers *)

\* the backquote character, which a TLA+ string cannot hold
Backtick == "<backquote>"

Whitespace == {" ", "\t", "\n", "\r", "\f"}
JsonWhitespace == {" ", "\t", "\n", "\r"}
Digits == {"0", "1", "2", "3", "4", "5", "6", "7", "8", "9"}

Count(s, c) == Cardinality({i \in 1..Len(s) : s[i] = c})

RECURSIVE Repeat(_, _)
Repeat(c, n) == IF n <= 0 THEN <<>> ELSE <<c>> \o Repeat(c, n - 1)

\* str.strip(chars): drop the leading and trailing characters that are in chars
StripChars(s, chars) ==
    LET keep == {i \in 1..Len(s) : s[i] \notin chars}
    IN  IF keep = {} THEN <<>>
        ELSE SubSeq(s, CHOOSE i \in keep : \A j \in keep : i <= j,
                       CHOOSE i \in keep : \A j \in keep : i >= j)

Strip(s) == StripChars(s, Whitespace)

UpperCase == <<"A", "B", "C", "D", "E", "F", "G", "H", "I", "J", "K", "L", "M",
               "N", "O", "P", "Q", "R", "S", "T", "U", "V", "W", "X", "Y", "Z">>
LowerCase == <<"a", "b", "c", "d", "e", "f", "g", "h", "i", "j", "k", "l", "m",
               "n", "o", "p", "q", "r", "s", "t", "u", "v", "w", "x", "y", "z">>

LowerChar(c) ==
    IF \E i \in 1..26 : UpperCase[i] = c
    THEN LowerCase[CHOOSE i \in 1..26 : UpperCase[i] = c]
    ELSE c

Lower(s) == [i \in 1..Len(s) |-> LowerChar(s[i])]

-----------------------------------------------------------------------------
(* json.loads, for texts without backslash escapes, fractions and exponents *)

Fail == [ok |-> FALSE]
Ok(v, n) == [ok |-> TRUE, val |-> v, next |-> n]

RECURSIVE SkipWS(_, _)
SkipWS(s, i) ==
    IF i <= Len(s) /\ s[i] \in JsonWhitespace THEN SkipWS(s, i + 1) ELSE i

At(s, i) == IF i >= 1 /\ i <= Len(s) THEN s[i] ELSE "<eof>"

Matches(s, i, w) == i + Len(w) - 1 <= Len(s) /\ SubSeq(s, i, i + Len(w) - 1) = w

\* a string literal opening at s[i]: up to the next quote, no control character
ParseString(s, i) ==
    LET close == {j \in (i + 1)..Len(s) : s[j] = "\""}
    IN  IF close = {} THEN Fail
        ELSE LET j == CHOOSE j \in close : \A k \in close : j <= k
             IN  IF \E k \in (i + 1)..(j - 1) : s[k] \in {"\n", "\t", "\r", "\f"}
                 THEN Fail
                 ELSE Ok(SubSeq(s, i + 1, j - 1), j + 1)

StrValue(r) == IF r.ok THEN Ok(PyStr(r.val), r.next) ELSE Fail

RECURSIVE DigitsEnd(_, _)
DigitsEnd(s, i) == IF At(s, i) \in Digits THEN DigitsEnd(s, i + 1) ELSE i

\* an integer literal at s[i]: -?(0|[1-9][0-9]*)
ParseNumber(s, i) ==
    LET d == IF At(s, i) = "-" THEN i + 1 ELSE i
        e == IF At(s, d) = "0" THEN d + 1 ELSE DigitsEnd(s, d)
    IN  IF e = d THEN Fail
        ELSE IF SubSeq(s, i, e - 1) = <<"-", "0">> THEN Ok(PyInt(<<"0">>), e)
        ELSE Ok(PyInt(SubSeq(s, i, e - 1)), e)

RECURSIVE ParseValue(_, _)
RECURSIVE ObjMembers(_, _, _)
RECURSIVE ArrItems(_, _, _)

\* after a member's value v: '}' closes the object, ',' must be followed by a key
ObjAfterValue(s, acc, key, v) ==
    IF ~v.ok THEN Fail
    ELSE LET k == SkipWS(s, v.next)
             acc2 == DictSet(acc, key, v.val)
         IN  IF At(s, k) = "}" THEN Ok(PyDict(acc2), k + 1)
             ELSE IF At(s, k) = "," /\ At(s, SkipWS(s, k + 1)) = "\""
                  THEN ObjMembers(s, SkipWS(s, k + 1), acc2)
                  ELSE Fail

ObjAfterKey(s, acc, key) ==
    IF ~key.ok THEN Fail
    ELSE LET c == SkipWS(s, key.next)
         IN  IF At(s, c) # ":" THEN Fail
             ELSE ObjAfterValue(s, acc, key.val, ParseValue(s, SkipWS(s, c + 1)))

\* the members of an object, s[i] being the quote that opens the next key
ObjMembers(s, i, acc) == ObjAfterKey(s, acc, ParseString(s, i))

ParseObject(s, i) ==
    LET j == SkipWS(s, i)
    IN  IF At(s, j) = "}" THEN Ok(PyDict(<<>>), j + 1)
        ELSE IF At(s, j) = "\"" THEN ObjMembers(s, j, <<>>)
        ELSE Fail

ArrAfterValue(s, acc, v) ==
    IF ~v.ok THEN Fail
    ELSE LET k == SkipWS(s, v.next)
         IN  IF At(s, k) = "]" THEN Ok(PyList(Append(acc, v.val)), k + 1)
             ELSE IF At(s, k) = ","
                  THEN ArrItems(s, SkipWS(s, k + 1), Append(acc, v.val))
                  ELSE Fail

ArrItems(s, i, acc) == ArrAfterValue(s, acc, ParseValue(s, i))

ParseArray(s, i) ==
    LET j == SkipWS(s, i)
    IN  IF At(s, j) = "]" THEN Ok(PyList(<<>>), j + 1)
        ELSE ArrItems(s, j, <<>>)

ParseValue(s, i) ==
    LET c == At(s, i)
    IN  CASE c = "\"" -> StrValue(ParseString(s, i))
          [] c = "{" -> ParseObject(s, i + 1)
          [] c = "[" -> ParseArray(s, i + 1)
          [] c = "n" /\ Matches(s, i, <<"n", "u", "l", "l">>) -> Ok(None, i + 4)
          [] c = "t" /\ Matches(s, i, <<"t", "r", "u", "e">>) -> Ok(PyBool(TRUE), i + 4)
          [] c = "f" /\ Matches(s, i, <<"f", "a", "l", "s", "e">>) -> Ok(PyBool(FALSE), i + 5)
          [] c = "-" \/ c \in Digits -> ParseNumber(s, i)
          [] OTHER -> Fail

\* json.loads(s): one value, whitespace around it, nothing else
LoadsEnd(s, r) ==
    IF r.ok /\ SkipWS(s, r.next) = Len(s) + 1 THEN Ok(r.val, Len(s) + 1) ELSE Fail

Loads(s) == LoadsEnd(s, ParseValue(s, SkipWS(s, 1)))

-----------------------------------------------------------------------------
(* extract_json and fix_json_structure *)

RECURSIVE SkipReWS(_, _)
SkipReWS(s, i) ==
    IF i <= Len(s) /\ s[i] \in Whitespace THEN SkipReWS(s, i + 1) ELSE i

\* the pattern as r"(\{[\s\S]*?\})": from the first '{' to the next '}'
JsonSpanLazy(s) ==
    LET opens == {i \in 1..Len(s) : s[i] = "{"}
    IN  IF opens = {} THEN [found |-> FALSE]
        ELSE LET a == CHOOSE i \in opens : \A j \in opens : i <= j
                 closes == {i \in (a + 1)..Len(s) : s[i] = "}"}
             IN  IF closes = {} THEN [found |-> FALSE]
                 ELSE [found |-> TRUE,
                       span |-> SubSeq(s, a, CHOOSE i \in closes : \A j \in closes : i <= j)]

\* re.search(r"(\{[\s\S]*\})", text): from the first '{' to the last '}'
JsonSpan(s) ==
    LET opens == {i \in 1..Len(s) : s[i] = "{"}
        closes == {i \in 1..Len(s) : s[i] = "}"}
    IN  IF opens = {} \/ closes = {} THEN [found |-> FALSE]
        ELSE LET a == CHOOSE i \in opens : \A j \in opens : i <= j
                 b == CHOOSE i \in closes : \A j \in closes : i >= j
             IN  IF b > a THEN [found |-> TRUE, span |-> SubSeq(s, a, b)]
                 ELSE [found |-> FALSE]

\* re.sub(r",\s*([\]}])", r"\1", s), scanning from position i
RECURSIVE SubTrailingFrom(_, _)
SubTrailingFrom(s, i) ==
    IF i > Len(s) THEN <<>>
    ELSE IF s[i] = "," /\ At(s, SkipReWS(s, i + 1)) \in {"]", "}"}
         THEN <<At(s, SkipReWS(s, i + 1))>> \o SubTrailingFrom(s, SkipReWS(s, i + 1) + 1)
         ELSE <<s[i]>> \o SubTrailingFrom(s, i + 1)

\* the pattern as r",([\]}])": only a comma right before the closing bracket
RECURSIVE SubAdjacentFrom(_, _)
SubAdjacentFrom(s, i) ==
    IF i > Len(s) THEN <<>>
    ELSE IF s[i] = "," /\ At(s, i + 1) \in {"]", "}"}
         THEN SubAdjacentFrom(s, i + 1)
         ELSE <<s[i]>> \o SubAdjacentFrom(s, i + 1)

SubAdjacentCommas(s) == SubAdjacentFrom(s, 1)

SubTrailingCommas(s) == SubTrailingFrom(s, 1)

\* re.sub(r"\[\s*,", "[", s), scanning from position i
RECURSIVE SubLeadingFrom(_, _)
SubLeadingFrom(s, i) ==
    IF i > Len(s) THEN <<>>
    ELSE IF s[i] = "[" /\ At(s, SkipReWS(s, i + 1)) = ","
         THEN <<"[">> \o SubLeadingFrom(s, SkipReWS(s, i + 1) + 1)
         ELSE <<s[i]>> \o SubLeadingFrom(s, i + 1)

SubLeadingCommas(s) == SubLeadingFrom(s, 1)

\* line 40: .strip().strip("```json").strip("```")
StripFences(s) ==
    StripChars(StripChars(Strip(s), {Backtick, "j", "s", "o", "n"}), {Backtick})

\* line 51 as `json_text += "}"`: one brace whatever the deficit
BalanceBracesByOne(s) ==
    IF Count(s, "{") > Count(s, "}") THEN Append(s, "}")
    ELSE IF Count(s, "}") > Count(s, "{")
         THEN Repeat("{", Count(s, "}") - Count(s, "{")) \o s
         ELSE s

\* lines 50-53: pad the missing '}' at the end, the missing '{' at the front
BalanceBraces(s) ==
    LET open_braces == Count(s, "{")
        close_braces == Count(s, "}")
    IN  IF open_braces > close_braces
        THEN s \o Repeat("}", open_braces - close_braces)
        ELSE IF close_braces > open_braces
             THEN Repeat("{", close_braces - open_braces) \o s
             ELSE s

\* lines 55-58: the same for '[' and ']', counted on the text of line 47
BalanceBrackets(counted, s) ==
    LET open_brackets == Count(counted, "[")
        close_brackets == Count(counted, "]")
    IN  IF open_brackets > close_brackets
        THEN s \o Repeat("]", open_brackets - close_brackets)
        ELSE IF close_brackets > open_brackets
             THEN Repeat("[", close_brackets - open_brackets) \o s
             ELSE s

\* the text of line 47, after the fences and the misplaced commas are removed
CleanText(s) == SubLeadingCommas(SubTrailingCommas(StripFences(s)))

\* the text handed to json.loads at line 61
FixText(s) == BalanceBrackets(CleanText(s), BalanceBraces(CleanText(s)))

LoadsOrNone(r) == IF r.ok THEN r.val ELSE None

fix_json_structure(s) == LoadsOrNone(Loads(FixText(s)))

ExtractFrom(m) ==
    IF ~m.found THEN None
    ELSE IF Loads(m.span).ok THEN Loads(m.span).val
         ELSE fix_json_structure(m.span)

extract_json(s) == ExtractFrom(JsonSpan(s))

-----------------------------------------------------------------------------
(* posixpath and the filesystem *)

OUTPUT_PATH == <<"O", "u", "t", "p", "u", "t">>
UnnamedFile == <<"u", "n", "n", "a", "m", "e", "d", "_", "f", "i", "l", "e",
                 ".", "t", "x", "t">>

LastSlash(p) ==
    IF \E i \in 1..Len(p) : p[i] = "/"
    THEN CHOOSE i \in 1..Len(p) : p[i] = "/" /\ \A j \in (i + 1)..Len(p) : p[j] # "/"
    ELSE 0

RECURSIVE RStripSlash(_)
RStripSlash(p) ==
    IF p # <<>> /\ p[Len(p)] = "/" THEN RStripSlash(SubSeq(p, 1, Len(p) - 1)) ELSE p

\* os.path.dirname: up to the last '/', trailing slashes dropped unless it is all slashes
dirname(p) ==
    LET head == SubSeq(p, 1, LastSlash(p))
    IN  IF head # <<>> /\ \E i \in 1..Len(head) : head[i] # "/"
        THEN RStripSlash(head)
        ELSE head

\* os.path.basename: what follows the last '/'
basename(p) == SubSeq(p, LastSlash(p) + 1, Len(p))

\* os.path.join(a, b)
join(a, b) ==
    IF b # <<>> /\ b[1] = "/" THEN b
    ELSE IF a = <<>> \/ a[Len(a)] = "/" THEN a \o b
    ELSE a \o <<"/">> \o b

\* the components of a path string: the pieces between the slashes
RECURSIVE Components(_)
Components(p) ==
    IF LastSlash(p) = 0 THEN <<p>>
    ELSE Append(Components(SubSeq(p, 1, LastSlash(p) - 1)), basename(p))

\* A location is the sequence of the directory names from the root.
Root == <<>>
Cwd == << <<"w">> >>
Start(p) == IF p # <<>> /\ p[1] = "/" THEN Root ELSE Cwd
Parent(loc) == IF loc = <<>> THEN loc ELSE SubSeq(loc, 1, Len(loc) - 1)
IsPrefix(a, b) == Len(a) <= Len(b) /\ SubSeq(b, 1, Len(a)) = a

IsFile(f, loc) == loc \in DOMAIN f.files
IsDir(f, loc) == loc \in f.dirs

\* os.makedirs(path, exist_ok=True), component by component from location cur:
\* a missing directory is created, a file in the way raises (FileExistsError
\* for the last component, NotADirectoryError below a file).
RECURSIVE MakeDirsFrom(_, _, _, _)
MakeDirsFrom(f, cur, comps, created) ==
    IF comps = <<>> THEN [ok |-> TRUE, fs |-> f, created |-> created]
    ELSE LET c == Head(comps)
             next == Append(cur, c)
         IN  IF c = <<>> \/ c = <<".">>
             THEN MakeDirsFrom(f, cur, Tail(comps), created)
             ELSE IF c = <<".", ".">>
             THEN MakeDirsFrom(f, Parent(cur), Tail(comps), created)
             ELSE IF IsFile(f, next)
             THEN [ok |-> FALSE, fs |-> f, created |-> created,
                   exc |-> IF Len(comps) = 1 THEN "FileExistsError"
                           ELSE "NotADirectoryError"]
             ELSE IF IsDir(f, next)
             THEN MakeDirsFrom(f, next, Tail(comps), created)
             ELSE MakeDirsFrom([f EXCEPT !.dirs = @ \cup {next}], next,
                               Tail(comps), created \cup {next})

makedirs(f, p) == MakeDirsFrom(f, Start(p), Components(p), {})

\* the directory a path's leading components lead to, each of which must exist
RECURSIVE Walk(_, _, _)
Walk(f, cur, comps) ==
    IF comps = <<>> THEN [ok |-> TRUE, loc |-> cur]
    ELSE LET c == Head(comps)
         IN  IF c = <<>> \/ c = <<".">> THEN Walk(f, cur, Tail(comps))
             ELSE IF c = <<".", ".">> THEN Walk(f, Parent(cur), Tail(comps))
             ELSE IF IsDir(f, Append(cur, c)) THEN Walk(f, Append(cur, c), Tail(comps))
             ELSE [ok |-> FALSE,
                   exc |-> IF IsFile(f, Append(cur, c)) THEN "NotADirectoryError"
                           ELSE "FileNotFoundError"]

\* open(p, "w"): the location of the file that is created or truncated
OpenAt(f, p, d) ==
    LET last == basename(p)
    IN  IF ~d.ok THEN d
        ELSE IF last \in {<<>>, <<".">>, <<".", ".">>} \/ IsDir(f, Append(d.loc, last))
             THEN [ok |-> FALSE, exc |-> "IsADirectoryError"]
             ELSE [ok |-> TRUE, loc |-> Append(d.loc, last)]

OpenForWriting(f, p) ==
    OpenAt(f, p, Walk(f, Start(p), SubSeq(Components(p), 1, Len(Components(p)) - 1)))

SetFile(f, loc, data) ==
    [f EXCEPT !.files = [l \in DOMAIN f.files \cup {loc} |->
                            IF l = loc THEN data ELSE f.files[l]]]

\* The run starts in a working directory that holds nothing.
EmptyFs == [dirs |-> {Root, Cwd}, files |-> <<>>]

-----------------------------------------------------------------------------
(* The inputs of a run *)

MaxEntries == 3

KeyFileScaffolding == <<"f", "i", "l", "e", "_", "s", "c", "a", "f", "f", "o",
                        "l", "d", "i", "n", "g">>
KeyArchitecture == <<"s", "o", "f", "t", "w", "a", "r", "e", "_", "a", "r", "c",
                     "h", "i", "t", "e", "c", "t", "u", "r", "e">>
KeyName == <<"n", "a", "m", "e">>
KeyContent == <<"c", "o", "n", "t", "e", "n", "t">>

Hi == <<"h", "i">>
Yo == <<"y", "o">>
NameA == <<"a">>
NameAB == <<"a", "/", "b">>
NameUp == <<".", ".", "/", "c">>

Record(name, content) == PyDict(<< <<KeyName, name>>, <<KeyContent, content>> >>)

\* what the model may put in a scaffolding list
EntryPool ==
    { Record(PyStr(NameA), PyStr(Hi)),
      Record(PyStr(NameAB), PyStr(Yo)),
      Record(PyStr(NameUp), PyStr(Hi)),
      Record(PyStr(NameA), PyInt(<<"5">>)),
      Record(PyInt(<<"5">>), PyStr(Hi)),
      PyDict(<< <<KeyContent, PyStr(Hi)>> >>),
      PyStr(<<"x">>) }

\* what the model may put under a key of a scaffolding mapping
ValuePool ==
    { PyDict(<< <<KeyContent, PyStr(Hi)>> >>),
      PyDict(<< <<KeyContent, PyStr(Yo)>> >>),
      PyDict(<<>>),
      PyStr(<<"x">>) }

KeyPool == {NameA, NameAB, NameUp}

SeqsUpTo(S, n) == UNION {[1..k -> S] : k \in 0..n}

ListScaffoldings == {PyList(a) : a \in SeqsUpTo(EntryPool, MaxEntries)}

\* a JSON object has each key once
MapScaffoldings ==
    {PyDict(ms) : ms \in {m \in SeqsUpTo(KeyPool \X ValuePool, MaxEntries) :
                            \A i, j \in 1..Len(m) : i # j => m[i][1] # m[j][1]}}

OtherScaffoldings == {PyStr(<<"x">>), PyInt(<<"5">>), None}

Scaffoldings == ListScaffoldings \cup MapScaffoldings \cup OtherScaffoldings

\* what extract_json can return for a response: None or a mapping
Proposals ==
    {None, PyDict(<<>>), PyDict(<< <<KeyArchitecture, PyStr(<<"x">>)>> >>)}
    \cup {PyDict(<< <<KeyFileScaffolding, sc>> >>) : sc \in Scaffoldings}

Descriptions == {<<>>, <<"a", "p", "p">>}

Answers ==
    { <<"y", "e", "s">>, <<"y">>, <<" ", "Y", "e", "s", "\n">>, <<"Y">>,
      <<"n", "o">>, <<>>, <<"y", "e", "s", "!">>, <<"N", "O", " ">> }

\* what requests.post can come back with
Responses ==
    {[kind |-> "exception"], [kind |-> "status", code |-> 500]}
    \cup {[kind |-> "status", code |-> 200, json_data |-> p] : p \in Proposals}

-----------------------------------------------------------------------------
(* main and generate_software_files *)

Say(line) == console' = Append(console, line)

Init ==
    /\ phase = "AwaitingDescription"
    /\ software_description = None
    /\ architecture_data = None
    /\ answer = None
    /\ user_input = None
    /\ file_scaffolding = None
    /\ idx = 0
    /\ fs = EmptyFs
    /\ made = {}
    /\ written = {}
    /\ console = <<>>
    /\ error = "none"
    /\ text = <<>>
    /\ doc = None
    /\ json_text = <<>>
    /\ result = None

\* line 106
EnterDescription ==
    /\ phase = "AwaitingDescription"
    /\ \E d \in Descriptions : software_description' = PyStr(d)
    /\ phase' = "RequestingArchitecture"
    /\ UNCHANGED <<architecture_data, answer, user_input, file_scaffolding, idx,
                   fs, made, written, console, error>>
    /\ UNCHANGED jsonVars

\* ask_llama_for_architecture (lines 90-103)
AskResult(r) ==
    IF r.kind = "status" /\ r.code = 200 THEN r.json_data ELSE None

\* lines 108-115
RequestArchitecture ==
    /\ phase = "RequestingArchitecture"
    /\ \E r \in Responses :
          /\ architecture_data' = AskResult(r)
          /\ IF ~Truthy(AskResult(r))
             THEN /\ Say(<<"no_proposal", 0>>)
                  /\ phase' = "Failed"
             ELSE /\ Say(<<"proposal", 0>>)
                  /\ phase' = "AwaitingConfirmation"
    /\ UNCHANGED <<software_description, answer, user_input, file_scaffolding,
                   idx, fs, made, written, error>>
    /\ UNCHANGED jsonVars

\* line 118 as `user_input.startswith("y")`
AcceptedByPrefix(u) == u # <<>> /\ u[1] = "y"

\* line 118
Accepted(u) == u \in {<<"y", "e", "s">>, <<"y">>}

\* lines 117-122
Confirm ==
    /\ phase = "AwaitingConfirmation"
    /\ \E a \in Answers :
          /\ answer' = PyStr(a)
          /\ user_input' = PyStr(Lower(Strip(a)))
          /\ IF ~Accepted(Lower(Strip(a)))
             THEN /\ Say(<<"not_accepted", 0>>)
                  /\ phase' = "Aborted"
             ELSE /\ Say(<<"accepted", 0>>)
                  /\ phase' = "GeneratingFiles"
    /\ UNCHANGED <<software_description, architecture_data, file_scaffolding,
                   idx, fs, made, written, error>>
    /\ UNCHANGED jsonVars

\* line 135 as `{"name": key, "content": ""}`
NormalizeItemsEmpty(ms) ==
    [i \in 1..Len(ms) |-> Record(PyStr(ms[i][1]), PyStr(<<>>))]

\* line 135: a mapping becomes the list of its {name, content} records
RECURSIVE NormalizeItems(_)
NormalizeItems(ms) ==
    IF ms = <<>> THEN <<>>
    ELSE <<Record(PyStr(ms[1][1]), DictGet(ms[1][2], KeyContent, PyStr(<<>>)))>>
         \o NormalizeItems(Tail(ms))

\* line 135 raises AttributeError at a value that has no .get
NormalizeRaises(ms) == \E i \in 1..Len(ms) : ~IsDict(ms[i][2])

\* lines 126-139, then line 124 when the shape is refused
GenStart ==
    /\ phase = "GeneratingFiles"
    /\ idx = 0
    /\ LET md == makedirs(fs, OUTPUT_PATH)
           given == DictGet(architecture_data, KeyFileScaffolding, PyList(<<>>))
       IN  IF ~Truthy(architecture_data)
           THEN /\ console' = console \o <<<<"no_architecture_data", 0>>,
                                                   <<"all_generated", 0>>>>
                /\ phase' = "Done"
                /\ UNCHANGED <<file_scaffolding, idx, fs, made, error>>
           ELSE IF ~md.ok
           THEN /\ phase' = "Crashed"
                /\ error' = md.exc
                /\ fs' = md.fs
                /\ made' = made \cup md.created
                /\ UNCHANGED <<file_scaffolding, idx, console>>
           ELSE /\ fs' = md.fs
                /\ made' = made \cup md.created
                /\ IF IsDict(given) /\ NormalizeRaises(given.ms)
                   THEN /\ phase' = "Crashed"
                        /\ error' = "AttributeError"
                        /\ file_scaffolding' = given
                        /\ UNCHANGED <<idx, console>>
                   ELSE IF IsDict(given)
                   THEN /\ file_scaffolding' = PyList(NormalizeItems(given.ms))
                        /\ idx' = 1
                        /\ UNCHANGED <<phase, console, error>>
                   ELSE IF ~IsList(given)
                   THEN /\ file_scaffolding' = given
                        /\ console' = console \o <<<<"not_a_list", 0>>,
                                                   <<"all_generated", 0>>>>
                        /\ phase' = "Done"
                        /\ UNCHANGED <<idx, error>>
                   ELSE /\ file_scaffolding' = given
                        /\ idx' = 1
                        /\ UNCHANGED <<phase, console, error>>
    /\ UNCHANGED <<software_description, architecture_data, answer, user_input,
                   written>>
    /\ UNCHANGED jsonVars

\* save_file_to_output (lines 154-161): every exception is caught and reported
SaveOpened(f, o, content) ==
    IF ~o.ok
    THEN [fs |-> f, written |-> {}, msg |-> "error_saving"]
    ELSE IF IsStr(content)
         THEN [fs |-> SetFile(f, o.loc, content.s), written |-> {o.loc},
               msg |-> "file_generated"]
         ELSE [fs |-> SetFile(f, o.loc, <<>>), written |-> {o.loc},
               msg |-> "error_saving"]

save_file_to_output(f, folder, filename, content) ==
    SaveOpened(f, OpenForWriting(f, join(folder, filename)), content)

\* lines 150-152
WriteEntry(md, folder_path, filename, content) ==
    IF ~md.ok
    THEN [crashed |-> TRUE, exc |-> md.exc, fs |-> md.fs, made |-> md.created,
          written |-> {}, msg |-> "none"]
    ELSE LET sv == save_file_to_output(md.fs, folder_path, basename(filename), content)
         IN  [crashed |-> FALSE, exc |-> "none", fs |-> sv.fs, made |-> md.created,
              written |-> sv.written, msg |-> sv.msg]

FolderPath(filename) ==
    IF dirname(filename) # <<>> THEN join(OUTPUT_PATH, dirname(filename))
    ELSE OUTPUT_PATH

\* lines 142-144 left out: file.get raises at an entry that is no dict
ProcessEntryUnchecked(f, file) ==
    IF ~IsDict(file)
    THEN [crashed |-> TRUE, exc |-> "AttributeError", fs |-> f, made |-> {},
          written |-> {}, msg |-> "none"]
    ELSE WriteEntry(makedirs(f, FolderPath(DictGet(file, KeyName, PyStr(UnnamedFile)).s)),
                    FolderPath(DictGet(file, KeyName, PyStr(UnnamedFile)).s),
                    DictGet(file, KeyName, PyStr(UnnamedFile)).s,
                    DictGet(file, KeyContent, PyStr(<<>>)))

\* one turn of the loop of lines 141-152 on entry `file`
ProcessEntry(f, file) ==
    IF ~IsDict(file)
    THEN [crashed |-> FALSE, exc |-> "none", fs |-> f, made |-> {}, written |-> {},
          msg |-> "skipping_invalid_entry"]
    ELSE LET filename == DictGet(file, KeyName, PyStr(UnnamedFile))
             content == DictGet(file, KeyContent, PyStr(<<>>))
         IN  IF ~IsStr(filename)
             THEN [crashed |-> TRUE, exc |-> "TypeError", fs |-> f, made |-> {},
                   written |-> {}, msg |-> "none"]
             ELSE WriteEntry(makedirs(f, FolderPath(filename.s)),
                             FolderPath(filename.s), filename.s, content)

GenEntry ==
    /\ phase = "GeneratingFiles"
    /\ idx >= 1
    /\ idx <= Len(file_scaffolding.a)
    /\ LET r == ProcessEntry(fs, file_scaffolding.a[idx])
       IN  /\ fs' = r.fs
           /\ made' = made \cup r.made
           /\ written' = written \cup r.written
           /\ IF r.crashed
              THEN /\ phase' = "Crashed"
                   /\ error' = r.exc
                   /\ UNCHANGED <<idx, console>>
              ELSE /\ idx' = idx + 1
                   /\ Say(<<r.msg, idx>>)
                   /\ UNCHANGED <<phase, error>>
    /\ UNCHANGED <<software_description, architecture_data, answer, user_input,
                   file_scaffolding>>
    /\ UNCHANGED jsonVars

\* the loop is over: generate_software_files returns, line 124
Finish ==
    /\ phase = "GeneratingFiles"
    /\ idx >= 1
    /\ idx = Len(file_scaffolding.a) + 1
    /\ Say(<<"all_generated", 0>>)
    /\ phase' = "Done"
    /\ UNCHANGED <<software_description, architecture_data, answer, user_input,
                   file_scaffolding, idx, fs, made, written, error>>
    /\ UNCHANGED jsonVars

Next ==
    \/ EnterDescription
    \/ RequestArchitecture
    \/ Confirm
    \/ GenStart
    \/ GenEntry
    \/ Finish

Spec == Init /\ [][Next]_vars

-----------------------------------------------------------------------------
(* Vocabulary of the properties of a run *)

\* the file_scaffolding field as the proposal gives it (line 132)
Given == DictGet(architecture_data, KeyFileScaffolding, PyList(<<>>))

Started == phase \in {"GeneratingFiles", "Done", "Crashed"} /\ file_scaffolding # None
Ended == phase \in {"Done", "Crashed"}

OutputRoot == Append(Cwd, OUTPUT_PATH)
UnderOutput(loc) == IsPrefix(OutputRoot, loc)

Printed(line) == \E i \in 1..Len(console) : console[i] = line

IsListGiven == architecture_data # None /\ IsDict(architecture_data) /\ IsList(Given)

IsRecordMapping(v) == IsDict(v) /\ \A i \in 1..Len(v.ms) : IsDict(v.ms[i][2])

IsMappingGiven ==
    architecture_data # None /\ IsDict(architecture_data) /\ IsRecordMapping(Given)

\* the loop of lines 141-152 run on a whole list from state st, stopping at a crash
RECURSIVE RunEntries(_, _)
RunEntries(entries, st) ==
    IF entries = <<>> \/ st.crashed THEN st
    ELSE LET r == ProcessEntry(st.fs, Head(entries))
         IN  RunEntries(Tail(entries),
                        [crashed |-> r.crashed, fs |-> r.fs,
                         made |-> st.made \cup r.made,
                         written |-> st.written \cup r.written])

\* the state in which the loop starts: the output directory is there
LoopStart ==
    [crashed |-> FALSE, fs |-> makedirs(EmptyFs, OUTPUT_PATH).fs,
     made |-> makedirs(EmptyFs, OUTPUT_PATH).created, written |-> {}]

\* the entries the loop has dealt with, the one it crashed on included
Handled ==
    SubSeq(file_scaffolding.a, 1, IF phase = "Crashed" THEN idx ELSE idx - 1)

SameFiles(st) == fs = st.fs /\ made = st.made /\ written = st.written

-----------------------------------------------------------------------------
(* C1: every run moves along AwaitingDescription -> RequestingArchitecture
   -> (Failed or AwaitingConfirmation) -> (Aborted or GeneratingFiles) -> Done:
   it is never anywhere else, the confirmation prompt is reached only with a
   proposal, generation only after the proposal was accepted. *)
C1_PhasesOnly ==
    /\ phase \in {"AwaitingDescription", "RequestingArchitecture", "Failed",
                  "AwaitingConfirmation", "Aborted", "GeneratingFiles", "Done"}
    /\ phase = "AwaitingConfirmation" => Truthy(architecture_data)
    /\ phase = "GeneratingFiles" => user_input # None /\ Accepted(user_input.s)

(* C2: when the answer, trimmed and lower-cased, is neither "yes" nor "y",
   the run is aborted and has written nothing: no directory made, no file
   opened, the filesystem as it was. *)
C2_DeclineWritesNothing ==
    (user_input # None /\ user_input.s \notin {<<"y", "e", "s">>, <<"y">>})
        => /\ phase = "Aborted"
           /\ fs = EmptyFs
           /\ made = {}
           /\ written = {}

C2_Witness ==
    /\ phase = "Aborted"
    /\ answer = PyStr(<<"N", "O", " ">>)
    /\ IsListGiven
    /\ Len(Given.a) = 2
    /\ Printed(<<"not_accepted", 0>>)

(* C3: a failure while writing one entry, the failure to create its parent
   directory included, never ends the batch: the run is not ended by the
   exception of a directory creation. *)
C3_WriteFailureNeverAborts ==
    ~(phase = "Crashed" /\ idx >= 1
        /\ error \in {"FileExistsError", "NotADirectoryError"})

(* C4: when the scaffolding is neither a list nor a mapping of records,
   materialization reports the error and ends without any filesystem write:
   no directory is made and no file is written. *)
C4_BadShapeWritesNothing ==
    (Ended /\ ~IsList(Given) /\ ~IsRecordMapping(Given))
        => /\ made = {}
           /\ written = {}
           /\ Printed(<<"not_a_list", 0>>)

(* C5: every directory made and every file written lies under the output
   directory. *)
C5_WritesUnderOutput ==
    \A loc \in made \cup written : UnderOutput(loc)


\* where a path string leads, '.' and '..' followed, whatever exists
RECURSIVE LocateFrom(_, _)
LocateFrom(cur, comps) ==
    IF comps = <<>> THEN cur
    ELSE IF Head(comps) = <<>> \/ Head(comps) = <<".">>
         THEN LocateFrom(cur, Tail(comps))
         ELSE IF Head(comps) = <<".", ".">>
              THEN LocateFrom(Parent(cur), Tail(comps))
              ELSE LocateFrom(Append(cur, Head(comps)), Tail(comps))

Locate(p) == LocateFrom(Start(p), Components(p))

\* where the directory and the file of a key are, the output root joined with the key
KeyDir(k) == Locate(join(OUTPUT_PATH, dirname(k)))
KeyFile(k) == Locate(join(OUTPUT_PATH, k))

\* where the claim C6 places them: the key's pieces below the output root
BelowOutput(k) == OutputRoot \o Components(k)

\* no key names a file where the output root or a key's directory has to be,
\* and no two keys name the same file
CollisionFree(ms) ==
    /\ \A i \in 1..Len(ms) : ~IsPrefix(KeyFile(ms[i][1]), OutputRoot)
    /\ \A i, j \in 1..Len(ms) : ~IsPrefix(KeyFile(ms[i][1]), KeyDir(ms[j][1]))
    /\ \A i, j \in 1..Len(ms) : i # j => KeyFile(ms[i][1]) # KeyFile(ms[j][1])

TextOf(record) == DictGet(record, KeyContent, PyStr(<<>>)).s

NoDotDot(k) == \A i \in 1..Len(Components(k)) : Components(k)[i] # <<".", ".">>

(* C6, as claimed: a mapping of records is materialized as its list of
   {name, content} records and, for each key, the directory part of the key
   exists under the output root and the file there holds exactly the
   record's content.  Stated for the mappings whose keys have no '..'
   component (with one, the file is not under the output root, see C5). *)
C6_EachKeyUnderOutput ==
    (phase = "Done" /\ IsMappingGiven
        /\ \A i \in 1..Len(Given.ms) : NoDotDot(Given.ms[i][1]))
        => \A i \in 1..Len(Given.ms) :
              LET k == Given.ms[i][1]
              IN  /\ IsDir(fs, Parent(BelowOutput(k)))
                  /\ IsFile(fs, BelowOutput(k))
                  /\ fs.files[BelowOutput(k)] = TextOf(Given.ms[i][2])

(* C6, amended: a mapping of records is normalized into the list of its
   {name: key, content: record content} records, in the order of the keys, and
   materialized as that list is; when no key names a file where the output
   root or a key's directory has to be and no two keys name the same file,
   the run does not crash and ends with, for each key, the directory of the
   output root joined with the key's directory part, and the file of the
   output root joined with the key holding exactly the record's content,
   both under the output root when the key has no '..' component. *)
C6_MappingAsList ==
    (Started /\ IsMappingGiven)
        => /\ IsList(file_scaffolding)
           /\ Len(file_scaffolding.a) = Len(Given.ms)
           /\ \A i \in 1..Len(Given.ms) :
                 file_scaffolding.a[i] =
                     Record(PyStr(Given.ms[i][1]), PyStr(TextOf(Given.ms[i][2])))
           /\ SameFiles(RunEntries(Handled, LoopStart))
           /\ CollisionFree(Given.ms) => phase # "Crashed"
           /\ (CollisionFree(Given.ms) /\ phase = "Done")
                 => \A i \in 1..Len(Given.ms) :
                       /\ IsDir(fs, KeyDir(Given.ms[i][1]))
                       /\ IsFile(fs, KeyFile(Given.ms[i][1]))
                       /\ fs.files[KeyFile(Given.ms[i][1])] = TextOf(Given.ms[i][2])
                       /\ NoDotDot(Given.ms[i][1])
                             => /\ UnderOutput(KeyDir(Given.ms[i][1]))
                                /\ KeyFile(Given.ms[i][1]) = BelowOutput(Given.ms[i][1])

\* the mapping {"a/b": {"content": "yo"}, "../c": {}} is materialized
C6_Witness ==
    /\ phase = "Done"
    /\ IsMappingGiven
    /\ Len(Given.ms) = 2
    /\ Given.ms[1] = <<NameAB, PyDict(<< <<KeyContent, PyStr(Yo)>> >>)>>
    /\ Given.ms[2] = <<NameUp, PyDict(<<>>)>>
    /\ CollisionFree(Given.ms)
    /\ IsDir(fs, Append(OutputRoot, <<"a">>))
    /\ fs.files[OutputRoot \o << <<"a">>, <<"b">> >>] = Yo

(* C10: in a list that mixes records with entries that are not records, each
   non-record entry is skipped with a warning and changes nothing, wherever it
   stands: the files are those of the run on the records alone, a run is never
   ended by a non-record entry, every entry of a run that is done was dealt
   with, and every record dealt with was written or reported. *)
C10_NonRecordsSkipped ==
    (Started /\ IsListGiven /\ idx >= 1)
        => /\ file_scaffolding = Given
           /\ SameFiles(RunEntries(SelectSeq(Handled, IsDict), LoopStart))
           /\ phase = "Done" => idx = Len(Given.a) + 1
           /\ phase = "Crashed" => IsDict(Given.a[idx])
           /\ \A i \in 1..(idx - 1) :
                 IF IsDict(Given.a[i])
                 THEN Printed(<<"file_generated", i>>) \/ Printed(<<"error_saving", i>>)
                 ELSE Printed(<<"skipping_invalid_entry", i>>)

\* [{"name": "a/b", ...}, "x", {"content": "hi"}]: both files are there
C10_Witness ==
    /\ phase = "Done"
    /\ IsListGiven
    /\ Len(Given.a) = 3
    /\ Given.a[1] = Record(PyStr(NameAB), PyStr(Yo))
    /\ ~IsDict(Given.a[2])
    /\ Given.a[3] = PyDict(<< <<KeyContent, PyStr(Hi)>> >>)
    /\ Printed(<<"skipping_invalid_entry", 2>>)
    /\ fs.files[OutputRoot \o << <<"a">>, <<"b">> >>] = Yo
    /\ fs.files[Append(OutputRoot, UnnamedFile)] = Hi

-----------------------------------------------------------------------------
(* The JSON routines on their own: documents, the texts built from them,
   and the two routines applied to a text *)

MaxItems == 2
MaxDepth == 2

\* the text of a document, as json.dumps writes it without spaces; with
\* trailing, a comma and then pad stand before every closing bracket
Quote(s) == <<"\"">> \o s \o <<"\"">>
Closer(c, trailing, pad) == (IF trailing THEN <<",">> ELSE <<>>) \o pad \o <<c>>

RECURSIVE Ser(_, _, _)
RECURSIVE SerItems(_, _, _)
RECURSIVE SerMembers(_, _, _)

SerItems(a, trailing, pad) ==
    IF a = <<>> THEN <<>>
    ELSE IF Len(a) = 1 THEN Ser(a[1], trailing, pad)
    ELSE Ser(a[1], trailing, pad) \o <<",">> \o SerItems(Tail(a), trailing, pad)

SerMembers(ms, trailing, pad) ==
    IF ms = <<>> THEN <<>>
    ELSE IF Len(ms) = 1 THEN Quote(ms[1][1]) \o <<":">> \o Ser(ms[1][2], trailing, pad)
    ELSE Quote(ms[1][1]) \o <<":">> \o Ser(ms[1][2], trailing, pad) \o <<",">>
         \o SerMembers(Tail(ms), trailing, pad)

Ser(v, trailing, pad) ==
    CASE v.t = "str" -> Quote(v.s)
      [] v.t = "int" -> v.n
      [] v.t = "none" -> <<"n", "u", "l", "l">>
      [] v.t = "bool" -> IF v.b THEN <<"t", "r", "u", "e">>
                         ELSE <<"f", "a", "l", "s", "e">>
      [] v.t = "list" -> <<"[">> \o SerItems(v.a, trailing, pad) \o Closer("]", trailing, pad)
      [] v.t = "dict" -> <<"{">> \o SerMembers(v.ms, trailing, pad) \o Closer("}", trailing, pad)

Dumps(v) == Ser(v, FALSE, <<>>)

\* the values at the leaves: two of the strings hold bracket characters
Atoms == {PyStr(<<"a">>), PyStr(<<",", "]">>), PyStr(<<"{">>), PyInt(<<"1">>)}

\* the i-th key of an object: k, kk, kkk, ...
Members(a) == [i \in 1..Len(a) |-> <<Repeat("k", i), a[i]>>]

Flat ==
    {PyList(a) : a \in SeqsUpTo(Atoms, MaxItems)}
    \cup {PyDict(Members(a)) : a \in SeqsUpTo(Atoms, MaxItems)}

Nest(S) ==
    {PyList(<<v>>) : v \in S} \cup {PyDict(<< <<<<"k">>, v>> >>) : v \in S}

RECURSIVE Nested(_)
Nested(d) == IF d = 0 THEN Flat ELSE Flat \cup Nest(Nested(d - 1))

Docs == Nested(MaxDepth)
Objects == {v \in Docs : IsDict(v)}

Fence == <<Backtick, Backtick, Backtick>>
Prefixes ==
    { <<>>, Fence \o <<"j", "s", "o", "n", "\n">>, <<"x", ":", " ">>,
      <<"{", "x", "}", " ">> }
Suffixes == { <<>>, <<"\n">> \o Fence, <<" ", "x">>, <<" ", "{", "x", "}">> }
Pads == { <<>>, <<" ">> }

\* how many '}' a text ends with
RECURSIVE ClosingBraces(_)
ClosingBraces(s) ==
    IF s # <<>> /\ s[Len(s)] = "}"
    THEN 1 + ClosingBraces(SubSeq(s, 1, Len(s) - 1))
    ELSE 0

\* an object in a response: fences or other text around it
Wrapped ==
    {[kind |-> "wrapped", value |-> v, prefix |-> p, suffix |-> q,
      text |-> p \o Dumps(v) \o q] : v \in Objects, p \in Prefixes, q \in Suffixes}

\* a document with a comma before every closing bracket
WithTrailingCommas ==
    {[kind |-> "commas", value |-> v, pad |-> pad, text |-> Ser(v, TRUE, pad)] :
        v \in Docs, pad \in Pads}

\* an object that lacks its last n closing braces
Truncated ==
    UNION {{[kind |-> "braces", value |-> v, missing |-> n,
             text |-> SubSeq(Dumps(v), 1, Len(Dumps(v)) - n)] :
                n \in 1..ClosingBraces(Dumps(v))} : v \in Objects}

InitJson(cases) ==
    /\ phase = "JsonInput"
    /\ \E c \in cases : doc = c /\ text = c.text
    /\ json_text = <<>>
    /\ result = None
    /\ software_description = None
    /\ architecture_data = None
    /\ answer = None
    /\ user_input = None
    /\ file_scaffolding = None
    /\ idx = 0
    /\ fs = EmptyFs
    /\ made = {}
    /\ written = {}
    /\ console = <<>>
    /\ error = "none"

\* extract_json(text), lines 12-29
Extract ==
    /\ phase = "JsonInput"
    /\ result' = extract_json(text)
    /\ json_text' = IF JsonSpan(text).found THEN JsonSpan(text).span ELSE <<>>
    /\ phase' = "Extracted"
    /\ UNCHANGED <<text, doc>>
    /\ UNCHANGED mainVars

\* fix_json_structure(text), lines 31-66
Repair ==
    /\ phase = "JsonInput"
    /\ json_text' = FixText(text)
    /\ result' = fix_json_structure(text)
    /\ phase' = "Repaired"
    /\ UNCHANGED <<text, doc>>
    /\ UNCHANGED mainVars

SpecExtract == InitJson(Wrapped) /\ [][Extract]_vars

SpecRepair == InitJson(WithTrailingCommas \cup Truncated) /\ [][Repair]_vars

-----------------------------------------------------------------------------
(* Properties of the JSON routines *)

Brackets == {"{", "}", "[", "]"}

\* no string of the document, key or value, holds a brace or a bracket
RECURSIVE PlainStrings(_)
PlainStrings(v) ==
    CASE v.t = "str" -> \A i \in 1..Len(v.s) : v.s[i] \notin Brackets
      [] v.t = "list" -> \A i \in 1..Len(v.a) : PlainStrings(v.a[i])
      [] v.t = "dict" -> \A i \in 1..Len(v.ms) :
                            /\ \A j \in 1..Len(v.ms[i][1]) : v.ms[i][1][j] \notin Brackets
                            /\ PlainStrings(v.ms[i][2])
      [] OTHER -> TRUE

(* C7, as claimed: for a text that holds a valid JSON object, in fences or
   with other text around it, extract_json returns the mapping that parsing
   the object gives. *)
C7_ExtractsTheObject ==
    (phase = "Extracted" /\ doc.kind = "wrapped") => result = doc.value

(* C7, amended: for a text that holds a valid JSON object, in fences or with
   other text around it, extract_json returns the mapping that parsing the
   object gives, provided the text has no '{' before the object and no '}'
   after it. *)
C7_ExtractsTheObjectAlone ==
    (phase = "Extracted" /\ doc.kind = "wrapped"
        /\ Count(doc.prefix, "{") = 0 /\ Count(doc.suffix, "}") = 0)
        => /\ json_text = Dumps(doc.value)
           /\ result = doc.value
           /\ Loads(Dumps(doc.value)) = Ok(result, Len(Dumps(doc.value)) + 1)

\* a fenced {"k":{"k":"{"}} is extracted
C7_Witness ==
    /\ phase = "Extracted"
    /\ doc.kind = "wrapped"
    /\ doc.prefix = Fence \o <<"j", "s", "o", "n", "\n">>
    /\ doc.suffix = <<"\n">> \o Fence
    /\ doc.value = PyDict(<< <<<<"k">>, PyDict(<< <<<<"k">>, PyStr(<<"{">>)>> >>)>> >>)
    /\ result = doc.value

(* C8, as claimed: for a document with a comma before every closing ']' and
   '}', the repair removes exactly those commas and no other character, none
   of a string value in particular, and the text it parses gives the
   document. *)
C8_StripsExactlyTheCommas ==
    (phase = "Repaired" /\ doc.kind = "commas")
        => /\ json_text = Ser(doc.value, FALSE, doc.pad)
           /\ result = doc.value

(* C8, amended: for a document with a comma before every closing ']' and
   '}', none of whose strings holds a brace or a bracket, the repair removes
   those commas, the whitespace between such a comma and its closing bracket,
   and no other character, and the text it parses gives the document. *)
C8_StripsCommasOfPlainDocuments ==
    (phase = "Repaired" /\ doc.kind = "commas" /\ PlainStrings(doc.value))
        => /\ json_text = Dumps(doc.value)
           /\ result = doc.value

\* {"k":[1, ], } is repaired to {"k":[1]}
C8_Witness ==
    /\ phase = "Repaired"
    /\ doc.kind = "commas"
    /\ doc.pad = <<" ">>
    /\ doc.value = PyDict(<< <<<<"k">>, PyList(<<PyInt(<<"1">>)>>)>> >>)
    /\ text = <<"{", "\"", "k", "\"", ":", "[", "1", ",", " ", "]", ",", " ", "}">>
    /\ json_text = <<"{", "\"", "k", "\"", ":", "[", "1", "]", "}">>
    /\ result = doc.value

Deficit(s) == Count(s, "{") - Count(s, "}")

(* C9, as claimed: for a text with N > 0 more '{' than '}' that is otherwise
   a valid document, the repair appends exactly N '}' at the end, prepends
   nothing, and the text it parses is accepted. *)
C9_AppendsTheDeficit ==
    (phase = "Repaired" /\ doc.kind = "braces" /\ Deficit(text) > 0)
        => /\ json_text = text \o Repeat("}", Deficit(text))
           /\ result # None

(* C9, amended: for a text that is a valid object without its last N > 0
   closing braces, none of whose strings holds a brace or a bracket, the
   text has N more '{' than '}', the repair appends exactly N '}' at the end,
   prepends nothing, and the text it parses gives the object. *)
C9_AppendsTheDeficitOfPlainObjects ==
    (phase = "Repaired" /\ doc.kind = "braces" /\ PlainStrings(doc.value))
        => /\ Deficit(text) = doc.missing
           /\ json_text = text \o Repeat("}", doc.missing)
           /\ json_text = Dumps(doc.value)
           /\ result = doc.value

\* {"k":{"k":["a"] is closed by two braces
C9_Witness ==
    /\ phase = "Repaired"
    /\ doc.kind = "braces"
    /\ doc.missing = 2
    /\ text = <<"{", "\"", "k", "\"", ":", "{", "\"", "k", "\"", ":", "[",
                "\"", "a", "\"", "]">>
    /\ json_text = text \o <<"}", "}">>
    /\ result = doc.value

=============================================================================
